---- MODULE Spec2Model ----
(***************************************************************************)
(* Model of the FCU drone controller client (src/control.py, and the       *)
(* earlier variant src/drone_controller.py, which has the same session     *)
(* logic): the DroneController session object, its background receive      *)
(* thread, the foreground command loop and the SIGINT handler.             *)
(*                                                                         *)
(* Text is modelled as sequences of Unicode code points, socket traffic    *)
(* as sequences of bytes; encode/decode are UTF-8.                         *)
(***************************************************************************)
EXTENDS Integers, Sequences, FiniteSets, TLC

VARIABLES
    mode,        \* "run": the process is main() -> run(); "api": a caller drives the methods
    userLines,   \* the lines the user may type at the prompt in this session
    sendBudget,  \* how many send_command calls the user or caller makes in this session
    pc,          \* position of the main thread's foreground code
    hpc,         \* position of the SIGINT handler frame ("none": no handler running)
    socket,      \* self.socket: "none" | "created" | "open" | "closed"
    connected,   \* self.connected
    running,     \* self.running
    wire,        \* the byte strings written to the socket, in order
    attempts,    \* number of socket.send calls made (successful or not)
    closes,      \* number of socket.close calls made
    cmd,         \* the argument of the send_command call in progress
    scResult,    \* how the last send_command call ended
    calls,       \* number of send_command calls made
    command,     \* interactive_mode's local: the last input line, stripped
    lastOp,      \* the session method called last: "connect", "send", or how the
                 \* last disconnect ended ("disconnect", "disconnect-noop")
    sigints,     \* SIGINTs delivered so far
    rxpc,        \* position of the receive thread
    inbound,     \* bytes the server sends that have not been read yet
    rxBytes,     \* bytes returned by recv so far
    received,    \* text decoded and appended to the buffer so far
    buffer,      \* receive_messages' local line buffer
    dispatched,  \* the arguments of the handle_server_message calls, in order
    lastRead,    \* outcome of the last recv
    lastData,    \* text of the last successful read
    errReports   \* number of "Receive error" reports printed

vars == <<mode, userLines, sendBudget, pc, hpc, socket, connected, running, wire, attempts,
          closes, cmd,
          scResult, calls, command, lastOp, sigints, rxpc, inbound, rxBytes,
          received, buffer, dispatched, lastRead, lastData, errReports>>

envVars == <<mode, userLines, sendBudget>>
sessionVars == <<socket, connected, running, wire, attempts, closes>>
fgVars == <<cmd, scResult, calls, command>>
rxVars == <<rxpc, inbound, rxBytes, received, buffer, dispatched, lastRead,
            lastData, errReports>>

(***************************************************************************)
(* Bounds of the model.                                                    *)
(***************************************************************************)
MaxStream == 4     \* longest inbound byte stream of the receive-loop specification
MaxSends == 1      \* send_command calls of a user who may type every token
MaxSessionSends == 2   \* send_command calls in the whole-session specification
MaxSigint == 1     \* SIGINTs delivered to the process

(***************************************************************************)
(* Characters and bytes.                                                   *)
(***************************************************************************)
NL == 10
RecvSize == 1024

\* str.strip() removes these (ASCII and Latin-1 white space)
Whitespace == {9, 10, 11, 12, 13, 28, 29, 30, 31, 32, 133, 160}

\* The keys of self.commands: a d t l r s 1 2 3 4 p i h q
Commands == {97, 100, 116, 108, 114, 115, 49, 50, 51, 52, 112, 105, 104, 113}

StrQuit == <<113, 117, 105, 116>>
StrExit == <<101, 120, 105, 116>>
StrHelp == <<104, 101, 108, 112>>
StrClear == <<99, 108, 101, 97, 114>>
StrLs == <<108, 115>>
StrCommands == <<99, 111, 109, 109, 97, 110, 100, 115>>

Min(a, b) == IF a < b THEN a ELSE b

\* position of the first element of s at or after i that is in S,
\* Len(s) + 1 when there is none
FirstOf(s, i, S) ==
    LET P == {j \in i .. Len(s) : s[j] \in S}
    IN  IF P = {} THEN Len(s) + 1 ELSE CHOOSE j \in P : \A k \in P : j <= k

IsCont(b) == b >= 128 /\ b <= 191

\* bytes.decode('utf-8'): the text, or ok = FALSE for UnicodeDecodeError
RECURSIVE DecodeFrom(_, _, _)
DecodeFrom(bs, i, acc) ==
    IF i > Len(bs) THEN [ok |-> TRUE, s |-> acc]
    ELSE LET b == bs[i]
             n == Len(bs) - i
             j == FirstOf(bs, i, 128 .. 255)
         IN  IF b < 128 THEN DecodeFrom(bs, j, acc \o SubSeq(bs, i, j - 1))
             ELSE IF b >= 194 /\ b <= 223 /\ n >= 1 /\ IsCont(bs[i + 1])
               THEN DecodeFrom(bs, i + 2,
                               Append(acc, (b - 192) * 64 + (bs[i + 1] - 128)))
             ELSE IF b >= 224 /\ b <= 239 /\ n >= 2 /\ IsCont(bs[i + 1])
                     /\ IsCont(bs[i + 2])
                     /\ (b = 224 => bs[i + 1] >= 160)
                     /\ (b = 237 => bs[i + 1] <= 159)
               THEN DecodeFrom(bs, i + 3,
                               Append(acc, (b - 224) * 4096 + (bs[i + 1] - 128) * 64
                                           + (bs[i + 2] - 128)))
             ELSE IF b >= 240 /\ b <= 244 /\ n >= 3 /\ IsCont(bs[i + 1])
                     /\ IsCont(bs[i + 2]) /\ IsCont(bs[i + 3])
                     /\ (b = 240 => bs[i + 1] >= 144)
                     /\ (b = 244 => bs[i + 1] <= 143)
               THEN DecodeFrom(bs, i + 4,
                               Append(acc, (b - 240) * 262144 + (bs[i + 1] - 128) * 4096
                                           + (bs[i + 2] - 128) * 64 + (bs[i + 3] - 128)))
             ELSE [ok |-> FALSE, s |-> acc]

Decode(bs) == DecodeFrom(bs, 1, <<>>)

\* str.encode('utf-8')
EncodeChar(c) ==
    IF c < 128 THEN <<c>>
    ELSE IF c < 2048 THEN <<192 + (c \div 64), 128 + (c % 64)>>
    ELSE IF c < 65536
      THEN <<224 + (c \div 4096), 128 + ((c \div 64) % 64), 128 + (c % 64)>>
    ELSE <<240 + (c \div 262144), 128 + ((c \div 4096) % 64),
           128 + ((c \div 64) % 64), 128 + (c % 64)>>

RECURSIVE Encode(_)
Encode(cs) == IF cs = <<>> THEN <<>> ELSE EncodeChar(Head(cs)) \o Encode(Tail(cs))

\* str.strip()
RECURSIVE LStrip(_)
LStrip(s) == IF s # <<>> /\ Head(s) \in Whitespace THEN LStrip(Tail(s)) ELSE s

RECURSIVE RStrip(_)
RStrip(s) ==
    IF s # <<>> /\ s[Len(s)] \in Whitespace THEN RStrip(SubSeq(s, 1, Len(s) - 1)) ELSE s

Strip(s) == RStrip(LStrip(s))

\* index of the first '\n' of s, 0 when there is none
FirstNL(s, i) == IF FirstOf(s, i, {NL}) > Len(s) THEN 0 ELSE FirstOf(s, i, {NL})

(***************************************************************************)
(* json.loads: the JSON values and the decoder of the standard library.    *)
(* A value is a record of one shape: kind is "object", "array", "string",  *)
(* "number", "true", "false" or "null"; s holds the text of a string or    *)
(* the literal of a number, keys and vals the members of an object in      *)
(* source order, vals the items of an array.                               *)
(***************************************************************************)
JsonWs == {32, 9, 10, 13}
Digits == 48 .. 57
HexDigits == Digits \cup (65 .. 70) \cup (97 .. 102)

JV(kind, s, keys, vals) == [kind |-> kind, s |-> s, keys |-> keys, vals |-> vals]
JString(s) == JV("string", s, <<>>, <<>>)
JNumber(s) == JV("number", s, <<>>, <<>>)
JLiteral(name) == JV(name, <<>>, <<>>, <<>>)
JArray(vals) == JV("array", <<>>, <<>>, vals)
JObject(keys, vals) == JV("object", <<>>, keys, vals)

\* result of a scan: the value and the position after it, or ok = FALSE
NoParse == [ok |-> FALSE, v |-> JLiteral("null"), next |-> 0]
Parsed(v, next) == [ok |-> TRUE, v |-> v, next |-> next]

RECURSIVE SkipWs(_, _)
SkipWs(s, i) == IF i <= Len(s) /\ s[i] \in JsonWs THEN SkipWs(s, i + 1) ELSE i

RECURSIVE SkipDigits(_, _)
SkipDigits(s, i) == IF i <= Len(s) /\ s[i] \in Digits THEN SkipDigits(s, i + 1) ELSE i

\* s has the word w at position i
HasAt(s, i, w) == i + Len(w) - 1 <= Len(s) /\ SubSeq(s, i, i + Len(w) - 1) = w

HexDigit(c) == IF c \in Digits THEN c - 48 ELSE IF c >= 97 THEN c - 87 ELSE c - 55

\* the four hex digits at s[i .. i+3] as a number, -1 when they are not there
Hex4(s, i) ==
    IF i + 3 <= Len(s) /\ \A k \in i .. i + 3 : s[k] \in HexDigits
      THEN HexDigit(s[i]) * 4096 + HexDigit(s[i + 1]) * 256 + HexDigit(s[i + 2]) * 16
           + HexDigit(s[i + 3])
      ELSE -1

\* the character a one-letter escape stands for: \" \\ \/ \b \f \n \r \t
Unescape(c) ==
    CASE c = 34 -> 34 [] c = 92 -> 92 [] c = 47 -> 47 [] c = 98 -> 8
      [] c = 102 -> 12 [] c = 110 -> 10 [] c = 114 -> 13 [] c = 116 -> 9
      [] OTHER -> -1

\* the number pattern -?(0|[1-9]\d*)(\.\d+)?([eE][-+]?\d+)? at position i
ScanNumber(s, i) ==
    LET j0 == IF s[i] = 45 THEN i + 1 ELSE i
        intEnd == IF j0 > Len(s) THEN j0
                  ELSE IF s[j0] = 48 THEN j0 + 1
                  ELSE IF s[j0] \in Digits THEN SkipDigits(s, j0)
                  ELSE j0
        fracEnd == IF intEnd + 1 <= Len(s) /\ s[intEnd] = 46 /\ s[intEnd + 1] \in Digits
                     THEN SkipDigits(s, intEnd + 1) ELSE intEnd
        expAt == IF fracEnd <= Len(s) /\ s[fracEnd] \in {101, 69}
                   THEN (IF fracEnd + 1 <= Len(s) /\ s[fracEnd + 1] \in {43, 45}
                           THEN fracEnd + 2 ELSE fracEnd + 1)
                   ELSE 0
        expEnd == IF expAt # 0 /\ expAt <= Len(s) /\ s[expAt] \in Digits
                    THEN SkipDigits(s, expAt) ELSE fracEnd
    IN  IF intEnd = j0 THEN NoParse
        ELSE Parsed(JNumber(SubSeq(s, i, expEnd - 1)), expEnd)

\* the rest of a string after its opening quote; acc is the text so far.
\* Characters up to the next quote, backslash or control character are
\* taken as they are.
RECURSIVE ScanString(_, _, _)
ScanString(s, i, acc) ==
    IF FirstOf(s, i, {34, 92} \cup (0 .. 31)) > i
      THEN ScanString(s, FirstOf(s, i, {34, 92} \cup (0 .. 31)),
                      acc \o SubSeq(s, i, FirstOf(s, i, {34, 92} \cup (0 .. 31)) - 1))
    ELSE IF i > Len(s) THEN NoParse
    ELSE IF s[i] = 34 THEN Parsed(JString(acc), i + 1)
    ELSE IF s[i] < 32 THEN NoParse
    ELSE IF i + 1 > Len(s) THEN NoParse
    ELSE IF s[i + 1] = 117
      THEN LET hi == Hex4(s, i + 2)
               lo == IF HasAt(s, i + 6, <<92, 117>>) THEN Hex4(s, i + 8) ELSE -1
           IN  IF hi = -1 THEN NoParse
               ELSE IF hi >= 55296 /\ hi <= 56319 /\ lo >= 56320 /\ lo <= 57343
                 THEN ScanString(s, i + 12,
                                 Append(acc, 65536 + (hi - 55296) * 1024 + (lo - 56320)))
               ELSE ScanString(s, i + 6, Append(acc, hi))
    ELSE IF Unescape(s[i + 1]) # -1
      THEN ScanString(s, i + 2, Append(acc, Unescape(s[i + 1])))
    ELSE NoParse

RECURSIVE ParseValue(_, _)
RECURSIVE ParseMembers(_, _, _, _)
RECURSIVE ParseItems(_, _, _)

\* one JSON value starting at position i
ParseValue(s, i) ==
    IF i > Len(s) THEN NoParse
    ELSE IF s[i] = 34 THEN ScanString(s, i + 1, <<>>)
    ELSE IF s[i] = 123
      THEN LET j == SkipWs(s, i + 1)
           IN  IF j <= Len(s) /\ s[j] = 125 THEN Parsed(JObject(<<>>, <<>>), j + 1)
               ELSE ParseMembers(s, j, <<>>, <<>>)
    ELSE IF s[i] = 91
      THEN LET j == SkipWs(s, i + 1)
           IN  IF j <= Len(s) /\ s[j] = 93 THEN Parsed(JArray(<<>>), j + 1)
               ELSE ParseItems(s, j, <<>>)
    ELSE IF HasAt(s, i, <<110, 117, 108, 108>>) THEN Parsed(JLiteral("null"), i + 4)
    ELSE IF HasAt(s, i, <<116, 114, 117, 101>>) THEN Parsed(JLiteral("true"), i + 4)
    ELSE IF HasAt(s, i, <<102, 97, 108, 115, 101>>) THEN Parsed(JLiteral("false"), i + 5)
    ELSE IF ScanNumber(s, i).ok THEN ScanNumber(s, i)
    ELSE IF HasAt(s, i, <<78, 97, 78>>) THEN Parsed(JNumber(<<78, 97, 78>>), i + 3)
    ELSE IF HasAt(s, i, <<73, 110, 102, 105, 110, 105, 116, 121>>)
      THEN Parsed(JNumber(SubSeq(s, i, i + 7)), i + 8)
    ELSE IF HasAt(s, i, <<45, 73, 110, 102, 105, 110, 105, 116, 121>>)
      THEN Parsed(JNumber(SubSeq(s, i, i + 8)), i + 9)
    ELSE NoParse

\* the members of an object from the key at position i on
ParseMembers(s, i, keys, vals) ==
    IF i > Len(s) \/ s[i] # 34 THEN NoParse
    ELSE LET k == ScanString(s, i + 1, <<>>)
             c == SkipWs(s, k.next)
         IN  IF ~k.ok \/ c > Len(s) \/ s[c] # 58 THEN NoParse
             ELSE LET v == ParseValue(s, SkipWs(s, c + 1))
                      e == SkipWs(s, v.next)
                      ks == Append(keys, k.v.s)
                      vs == Append(vals, v.v)
                  IN  IF ~v.ok \/ e > Len(s) THEN NoParse
                      ELSE IF s[e] = 125 THEN Parsed(JObject(ks, vs), e + 1)
                      ELSE IF s[e] = 44 THEN ParseMembers(s, SkipWs(s, e + 1), ks, vs)
                      ELSE NoParse

\* the items of an array from the value at position i on
ParseItems(s, i, vals) ==
    LET v == ParseValue(s, i)
        e == SkipWs(s, v.next)
        vs == Append(vals, v.v)
    IN  IF ~v.ok \/ e > Len(s) THEN NoParse
        ELSE IF s[e] = 93 THEN Parsed(JArray(vs), e + 1)
        ELSE IF s[e] = 44 THEN ParseItems(s, SkipWs(s, e + 1), vs)
        ELSE NoParse

\* json.loads(s): ok = FALSE stands for json.JSONDecodeError
Loads(s) ==
    IF s # <<>> /\ s[1] = 65279 THEN NoParse
    ELSE LET r == ParseValue(s, SkipWs(s, 1))
         IN  IF r.ok /\ SkipWs(s, r.next) = Len(s) + 1 THEN r ELSE NoParse

(***************************************************************************)
(* handle_server_message(message) and the renderers it calls.  Printing is *)
(* taken to succeed; what is modelled is which statements run and which    *)
(* exception, if any, ends the try block.                                  *)
(***************************************************************************)
\* the string literals of the handler, as code points
StrType == <<116, 121, 112, 101>>
StrMessage == <<109, 101, 115, 115, 97, 103, 101>>
StrData == <<100, 97, 116, 97>>
StrUnknown == <<117, 110, 107, 110, 111, 119, 110>>
StrWelcome == <<119, 101, 108, 99, 111, 109, 101>>
StrCommand == <<99, 111, 109, 109, 97, 110, 100>>
StrStatus == <<115, 116, 97, 116, 117, 115>>
StrDebug == <<100, 101, 98, 117, 103>>
StrError == <<101, 114, 114, 111, 114>>
StrGoodbye == <<103, 111, 111, 100, 98, 121, 101>>
StrCommandId == <<99, 111, 109, 109, 97, 110, 100, 95, 105, 100>>
StrWorldPosition ==
    <<119, 111, 114, 108, 100, 95, 112,
      111, 115, 105, 116, 105, 111, 110>>
StrOrientation == <<111, 114, 105, 101, 110, 116, 97, 116, 105, 111, 110>>
StrVelocity == <<118, 101, 108, 111, 99, 105, 116, 121>>
StrLinear == <<108, 105, 110, 101, 97, 114>>
StrImu == <<105, 109, 117>>
StrLinearAcceleration ==
    <<108, 105, 110, 101, 97, 114, 95, 97, 99,
      99, 101, 108, 101, 114, 97, 116, 105, 111, 110>>
StrGnss == <<103, 110, 115, 115>>
StrTopics == <<116, 111, 112, 105, 99, 115>>
StrX == <<120>>
StrY == <<121>>
StrZ == <<122>>
StrRoll == <<114, 111, 108, 108>>
StrPitch == <<112, 105, 116, 99, 104>>
StrYaw == <<121, 97, 119>>
StrLatitude == <<108, 97, 116, 105, 116, 117, 100, 101>>
StrLongitude == <<108, 111, 110, 103, 105, 116, 117, 100, 101>>
StrAltitude == <<97, 108, 116, 105, 116, 117, 100, 101>>
StrName == <<110, 97, 109, 101>>
StrNA == <<78, 47, 65>>
StrUnknownTopic == <<85, 110, 107, 110, 111, 119, 110>>

\* dict lookup: position of the last member named k (a later duplicate
\* replaces an earlier one), 0 when there is none
RECURSIVE KeyIndex(_, _, _)
KeyIndex(keys, k, i) ==
    IF i = 0 THEN 0 ELSE IF keys[i] = k THEN i ELSE KeyIndex(keys, k, i - 1)

HasKey(o, k) == KeyIndex(o.keys, k, Len(o.keys)) # 0

\* o.get(k, default) and o[k] of a dict o
Get(o, k, default) ==
    LET i == KeyIndex(o.keys, k, Len(o.keys)) IN IF i = 0 THEN default ELSE o.vals[i]

IsSubstring(w, s) == \E i \in 1 .. Len(s) - Len(w) + 1 : SubSeq(s, i, i + Len(w) - 1) = w

\* k in x for a str k: "yes", "no", or "TypeError" when x is not a container
Contains(x, k) ==
    CASE x.kind = "object" -> IF HasKey(x, k) THEN "yes" ELSE "no"
      [] x.kind = "array" ->
            IF \E i \in 1 .. Len(x.vals) : x.vals[i] = JString(k) THEN "yes" ELSE "no"
      [] x.kind = "string" -> IF IsSubstring(k, x.s) THEN "yes" ELSE "no"
      [] OTHER -> "TypeError"

\* the exception raised by f"{v:.3f}", "none" when it formats
FormatFloat(v) ==
    IF v.kind \in {"number", "true", "false"} THEN "none"
    ELSE IF v.kind = "string" THEN "ValueError"
    ELSE "TypeError"

\* the exception raised by f"{v:<30}"
FormatPad(v) == IF v.kind \in {"string", "number", "true", "false"} THEN "none" ELSE "TypeError"

\* the first exception of a sequence of statements
RECURSIVE FirstExc(_)
FirstExc(es) ==
    IF es = <<>> THEN "none"
    ELSE IF Head(es) # "none" THEN Head(es) ELSE FirstExc(Tail(es))

\* o.get(f, 'N/A') formatted as a float, for each field f in turn
FormatFields(o, fields) ==
    IF o.kind # "object" THEN "AttributeError"
    ELSE FirstExc([i \in 1 .. Len(fields) |->
                     FormatFloat(Get(o, fields[i], JString(StrNA)))])

\* if key in data: o = data[key]; print its fields
Section(data, key, fields) ==
    LET m == Contains(data, key)
    IN  IF m # "yes" THEN (IF m = "no" THEN "none" ELSE m)
        ELSE IF data.kind # "object" THEN "TypeError"
        ELSE FormatFields(Get(data, key, data), fields)

\* if key in data: v = data[key]; if sub in v: o = v[sub]; print its fields
NestedSection(data, key, sub, fields) ==
    LET m == Contains(data, key)
    IN  IF m # "yes" THEN (IF m = "no" THEN "none" ELSE m)
        ELSE IF data.kind # "object" THEN "TypeError"
        ELSE Section(Get(data, key, data), sub, fields)

\* if 'topics' in data: len(topics); for topic in topics: topic.get(...)
TopicsSection(data) ==
    LET m == Contains(data, StrTopics)
        topics == Get(data, StrTopics, data)
    IN  IF m # "yes" THEN (IF m = "no" THEN "none" ELSE m)
        ELSE IF data.kind # "object" THEN "TypeError"
        ELSE IF topics.kind = "array"
          THEN FirstExc([i \in 1 .. Len(topics.vals) |->
                           IF topics.vals[i].kind # "object" THEN "AttributeError"
                           ELSE FormatPad(Get(topics.vals[i], StrName,
                                              JString(StrUnknownTopic)))])
        ELSE IF topics.kind = "object"
          THEN (IF topics.keys = <<>> THEN "none" ELSE "AttributeError")
        ELSE IF topics.kind = "string"
          THEN (IF topics.s = <<>> THEN "none" ELSE "AttributeError")
        ELSE "TypeError"

\* print_debug_data(data)
PrintDebugData(data) ==
    FirstExc(<<Section(data, StrWorldPosition, <<StrX, StrY, StrZ>>),
               Section(data, StrOrientation, <<StrRoll, StrPitch, StrYaw>>),
               NestedSection(data, StrVelocity, StrLinear, <<StrX, StrY, StrZ>>),
               NestedSection(data, StrImu, StrLinearAcceleration, <<StrX, StrY, StrZ>>),
               Section(data, StrGnss, <<StrLatitude, StrLongitude, StrAltitude>>),
               TopicsSection(data)>>)

\* print_commands(commands_data): commands_data.items()
PrintCommands(c) == IF c.kind # "object" THEN "AttributeError" ELSE "none"

\* Mutant of BranchOf: the goodbye branch is missing from the chain
BranchOfNoGoodbye(t) ==
    IF t = JString(StrWelcome) THEN "welcome"
    ELSE IF t = JString(StrCommand) THEN "command"
    ELSE IF t = JString(StrStatus) THEN "status"
    ELSE IF t = JString(StrDebug) THEN "debug"
    ELSE IF t = JString(StrHelp) THEN "help"
    ELSE IF t = JString(StrError) THEN "error"
    ELSE "generic"

\* the if/elif chain on msg_type
BranchOf(t) ==
    IF t = JString(StrWelcome) THEN "welcome"
    ELSE IF t = JString(StrCommand) THEN "command"
    ELSE IF t = JString(StrStatus) THEN "status"
    ELSE IF t = JString(StrDebug) THEN "debug"
    ELSE IF t = JString(StrHelp) THEN "help"
    ELSE IF t = JString(StrError) THEN "error"
    ELSE IF t = JString(StrGoodbye) THEN "goodbye"
    ELSE "generic"

\* what the branch does after printing msg_text: the exception it raises, or "none"
RenderBranch(branch, data, msg_data) ==
    CASE branch = "welcome" ->
           IF HasKey(data, StrData) THEN PrintCommands(Get(data, StrData, data)) ELSE "none"
      [] branch = "command" ->
           LET m == Contains(msg_data, StrCommandId)
           IN  IF m # "yes" THEN (IF m = "no" THEN "none" ELSE m)
               ELSE IF msg_data.kind # "object" THEN "TypeError" ELSE "none"
      [] branch = "debug" -> PrintDebugData(msg_data)
      [] branch = "help" ->
           LET m == Contains(msg_data, StrCommands)
           IN  IF m # "yes" THEN (IF m = "no" THEN "none" ELSE m)
               ELSE IF msg_data.kind # "object" THEN "TypeError"
               ELSE PrintCommands(Get(msg_data, StrCommands, msg_data))
      [] OTHER -> "none"

\* the statements of the try block after data = json.loads(message), for a
\* dict data: the data.get calls and the branch taken.  exc is the exception
\* that ends the block ("none": it ran to its end), branch the rendering
\* branch entered, text the value of msg_text
Dispatch(data, msg_type, msg_text, msg_data) ==
    [exc |-> RenderBranch(BranchOf(msg_type), data, msg_data),
     branch |-> BranchOf(msg_type), text |-> msg_text]

\* the try block given the outcome p of json.loads(message)
TryBlock(p) ==
    IF ~p.ok
      THEN [exc |-> "JSONDecodeError", branch |-> "none", text |-> JLiteral("null")]
    ELSE IF p.v.kind # "object"
      THEN [exc |-> "AttributeError", branch |-> "none", text |-> JLiteral("null")]
    ELSE Dispatch(p.v, Get(p.v, StrType, JString(StrUnknown)),
                  Get(p.v, StrMessage, JString(<<>>)),
                  Get(p.v, StrData, JObject(<<>>, <<>>)))

HandlerBody(message) == TryBlock(Loads(message))

\* the exception classes the body can raise that derive from Exception
ExceptionClasses == {"JSONDecodeError", "AttributeError", "TypeError", "ValueError"}

\* Mutant of Outcome: only json.JSONDecodeError is caught
OutcomeDecodeErrorOnly(b) ==
    [path |-> IF b.exc = "none" THEN "returned"
              ELSE IF b.exc = "JSONDecodeError" THEN "raw"
              ELSE "raised",
     branch |-> b.branch, text |-> b.text]

\* how the call ends, given how the try block ended.  "returned": it ran to
\* its end; "raw": except json.JSONDecodeError printed the raw response;
\* "failed": except Exception printed the failure and the raw message;
\* "raised": the exception left the handler
Outcome(b) ==
    [path |-> IF b.exc = "none" THEN "returned"
              ELSE IF b.exc = "JSONDecodeError" THEN "raw"
              ELSE IF b.exc \in ExceptionClasses THEN "failed"
              ELSE "raised",
     branch |-> b.branch, text |-> b.text]

\* handle_server_message(message)
HandleServerMessage(message) == Outcome(HandlerBody(message))

\* Mutant of SplitLines: a later line of a read is handed over before an earlier one
RECURSIVE SplitLinesNewestFirst(_, _)
SplitLinesNewestFirst(buf, out) ==
    LET i == FirstNL(buf, 1)
    IN  IF i = 0 THEN [buffer |-> buf, out |-> out, raised |-> FALSE]
        ELSE LET line == SubSeq(buf, 1, i - 1)
                 rest == SubSeq(buf, i + 1, Len(buf))
                 later == SplitLinesNewestFirst(rest, out)
             IN  [buffer |-> later.buffer,
                  out |-> IF Strip(line) # <<>>
                            THEN Append(later.out, Strip(line)) ELSE later.out,
                  raised |-> FALSE]

\* Mutant of SplitLines: what is left after the last newline is handed over too
RECURSIVE SplitLinesEager(_, _)
SplitLinesEager(buf, out) ==
    LET i == FirstNL(buf, 1)
    IN  IF i = 0
          THEN [buffer |-> <<>>,
                out |-> IF Strip(buf) # <<>> THEN Append(out, Strip(buf)) ELSE out,
                raised |-> FALSE]
        ELSE LET line == SubSeq(buf, 1, i - 1)
                 rest == SubSeq(buf, i + 1, Len(buf))
             IN  SplitLinesEager(rest, IF Strip(line) # <<>>
                                         THEN Append(out, Strip(line)) ELSE out)

\* receive_messages' inner loop: while '\n' in buffer: split off the first line
\* and hand it, stripped, to handle_server_message unless it is blank.  An
\* exception leaving the handler ends the inner loop (raised = TRUE).
RECURSIVE SplitLines(_, _)
SplitLines(buf, out) ==
    LET i == FirstNL(buf, 1)
    IN  IF i = 0 THEN [buffer |-> buf, out |-> out, raised |-> FALSE]
        ELSE LET line == SubSeq(buf, 1, i - 1)
                 rest == SubSeq(buf, i + 1, Len(buf))
             IN  IF Strip(line) = <<>> THEN SplitLines(rest, out)
                 ELSE IF HandleServerMessage(Strip(line)).path = "raised"
                   THEN [buffer |-> rest, out |-> Append(out, Strip(line)),
                         raised |-> TRUE]
                 ELSE SplitLines(rest, Append(out, Strip(line)))

(***************************************************************************)
(* The main thread runs either the foreground code (pc) or, while a        *)
(* SIGINT is being handled, the handler frame on top of it (hpc).          *)
(***************************************************************************)
Alive == pc # "exited"
InHandler == hpc # "none"
Cur == IF InHandler THEN hpc ELSE pc
SetCur(l) == IF InHandler THEN hpc' = l /\ pc' = pc ELSE pc' = l /\ hpc' = hpc

\* where a method returns to
AfterConnect(ok) == IF mode = "run" THEN (IF ok THEN "im_check" ELSE "exited") ELSE "idle"
AfterSend == IF mode = "run" THEN "im_check" ELSE "idle"
AfterDisconnect ==
    IF InHandler THEN "h_exit" ELSE IF mode = "run" THEN "exited" ELSE "idle"

(***************************************************************************)
(* connect()                                                               *)
(***************************************************************************)
\* Mutant of ConnectOpen: the thread is started although socket.connect raised
ConnectOpenAlwaysStarts ==
    /\ ~InHandler /\ pc = "c_open"
    /\ \E outcome \in {"nosocket", "refused", "ok"} :
         /\ socket' = CASE outcome = "nosocket" -> socket
                        [] outcome = "refused" -> "created"
                        [] OTHER -> "open"
         /\ connected' = IF outcome = "ok" THEN TRUE ELSE connected
         /\ pc' = IF outcome # "nosocket" THEN "c_thread" ELSE AfterConnect(FALSE)
    /\ UNCHANGED <<envVars, hpc, lastOp, running, wire, attempts, closes, sigints>>
    /\ UNCHANGED fgVars /\ UNCHANGED rxVars

\* socket.socket(), settimeout, socket.connect; self.connected = True
ConnectOpen ==
    /\ ~InHandler /\ pc = "c_open"
    /\ \E outcome \in {"nosocket", "refused", "ok"} :
         /\ socket' = CASE outcome = "nosocket" -> socket
                        [] outcome = "refused" -> "created"
                        [] OTHER -> "open"
         /\ connected' = IF outcome = "ok" THEN TRUE ELSE connected
         /\ pc' = IF outcome = "ok" THEN "c_thread" ELSE AfterConnect(FALSE)
    /\ UNCHANGED <<envVars, hpc, lastOp, running, wire, attempts, closes, sigints>>
    /\ UNCHANGED fgVars /\ UNCHANGED rxVars

\* receive_thread.start(); return True
ConnectStartThread ==
    /\ ~InHandler /\ pc = "c_thread"
    /\ rxpc' = "check"
    /\ pc' = AfterConnect(TRUE)
    /\ UNCHANGED <<envVars, hpc, lastOp, sigints, inbound, rxBytes, received, buffer,
                   dispatched, lastRead, lastData, errReports>>
    /\ UNCHANGED sessionVars /\ UNCHANGED fgVars

(***************************************************************************)
(* disconnect(), run by the foreground or by the signal handler            *)
(***************************************************************************)
\* Mutant of DisconnectCheck: only the socket is tested, not self.connected
DisconnectCheckSocketOnly ==
    /\ Alive /\ Cur = "d_check"
    /\ IF socket # "none"
         THEN SetCur("d_send") /\ lastOp' = lastOp
         ELSE SetCur(AfterDisconnect) /\ lastOp' = "disconnect-noop"
    /\ UNCHANGED <<envVars, sigints>>
    /\ UNCHANGED sessionVars /\ UNCHANGED fgVars /\ UNCHANGED rxVars

\* if self.connected and self.socket:
DisconnectCheck ==
    /\ Alive /\ Cur = "d_check"
    /\ IF connected /\ socket # "none"
         THEN SetCur("d_send") /\ lastOp' = lastOp
         ELSE SetCur(AfterDisconnect) /\ lastOp' = "disconnect-noop"
    /\ UNCHANGED <<envVars, sigints>>
    /\ UNCHANGED sessionVars /\ UNCHANGED fgVars /\ UNCHANGED rxVars

\* self.socket.send(b"quit\n"), inside try ... except: pass
DisconnectSendQuit ==
    /\ Alive /\ Cur = "d_send"
    /\ attempts' = attempts + 1
    /\ \E sent \in (IF socket = "open" THEN BOOLEAN ELSE {FALSE}) :
         /\ wire' = IF sent THEN Append(wire, Encode(StrQuit \o <<NL>>)) ELSE wire
         /\ SetCur(IF sent THEN "d_close" ELSE "d_flag")
    /\ UNCHANGED <<envVars, socket, connected, running, closes, lastOp, sigints>>
    /\ UNCHANGED fgVars /\ UNCHANGED rxVars

\* self.socket.close()
DisconnectClose ==
    /\ Alive /\ Cur = "d_close"
    /\ socket' = "closed"
    /\ closes' = closes + 1
    /\ SetCur("d_flag")
    /\ UNCHANGED <<envVars, connected, running, wire, attempts, lastOp, sigints>>
    /\ UNCHANGED fgVars /\ UNCHANGED rxVars

\* self.connected = False
DisconnectFlag ==
    /\ Alive /\ Cur = "d_flag"
    /\ connected' = FALSE
    /\ SetCur(AfterDisconnect)
    /\ lastOp' = "disconnect"
    /\ UNCHANGED <<envVars, socket, running, wire, attempts, closes, sigints>>
    /\ UNCHANGED fgVars /\ UNCHANGED rxVars

(***************************************************************************)
(* send_command(command)                                                   *)
(***************************************************************************)
\* Mutant of SendCommandCheck: the connected test is missing
SendCommandCheckUnguarded ==
    /\ ~InHandler /\ pc = "sc_check"
    /\ pc' = "sc_send"
    /\ UNCHANGED <<envVars, hpc, cmd, scResult, calls, command, lastOp, sigints>>
    /\ UNCHANGED sessionVars /\ UNCHANGED rxVars

\* if not self.connected: return False
SendCommandCheck ==
    /\ ~InHandler /\ pc = "sc_check"
    /\ IF ~connected
         THEN /\ scResult' = "NotConnected"
              /\ pc' = AfterSend
         ELSE /\ pc' = "sc_send"
              /\ scResult' = scResult
    /\ UNCHANGED <<envVars, hpc, cmd, calls, command, lastOp, sigints>>
    /\ UNCHANGED sessionVars /\ UNCHANGED rxVars

\* Mutant of SendCommandWrite: a failed write tears the session down
SendCommandWriteFatal ==
    /\ ~InHandler /\ pc = "sc_send"
    /\ attempts' = attempts + 1
    /\ \E sent \in (IF socket = "open" THEN BOOLEAN ELSE {FALSE}) :
         /\ wire' = IF sent THEN Append(wire, Encode(cmd \o <<NL>>)) ELSE wire
         /\ scResult' = IF sent THEN "ok" ELSE "SendError"
         /\ connected' = IF sent THEN connected ELSE FALSE
    /\ pc' = AfterSend
    /\ UNCHANGED <<envVars, hpc, socket, running, closes, cmd,
                   calls, command, lastOp, sigints>>
    /\ UNCHANGED rxVars

\* Mutant of SendCommandWrite: the newline is not appended
SendCommandWriteNoNewline ==
    /\ ~InHandler /\ pc = "sc_send"
    /\ attempts' = attempts + 1
    /\ \E sent \in (IF socket = "open" THEN BOOLEAN ELSE {FALSE}) :
         /\ wire' = IF sent THEN Append(wire, Encode(cmd)) ELSE wire
         /\ scResult' = IF sent THEN "ok" ELSE "SendError"
    /\ pc' = AfterSend
    /\ UNCHANGED <<envVars, hpc, socket, connected, running, closes, cmd,
                   calls, command, lastOp, sigints>>
    /\ UNCHANGED rxVars

\* self.socket.send((command + '\n').encode('utf-8')), return True;
\* except Exception: return False
SendCommandWrite ==
    /\ ~InHandler /\ pc = "sc_send"
    /\ attempts' = attempts + 1
    /\ \E sent \in (IF socket = "open" THEN BOOLEAN ELSE {FALSE}) :
         /\ wire' = IF sent THEN Append(wire, Encode(cmd \o <<NL>>)) ELSE wire
         /\ scResult' = IF sent THEN "ok" ELSE "SendError"
    /\ pc' = AfterSend
    /\ UNCHANGED <<envVars, hpc, socket, connected, running, closes, cmd,
                   calls, command, lastOp, sigints>>
    /\ UNCHANGED rxVars

(***************************************************************************)
(* run() and interactive_mode()                                            *)
(***************************************************************************)
\* run(): if not self.connect(): return
RunConnect ==
    /\ ~InHandler /\ mode = "run" /\ pc = "start"
    /\ pc' = "c_open"
    /\ lastOp' = "connect"
    /\ UNCHANGED <<envVars, hpc, sigints>>
    /\ UNCHANGED sessionVars /\ UNCHANGED fgVars /\ UNCHANGED rxVars

\* while self.connected and self.running:   (leaving the loop runs run()'s finally)
InteractiveCheck ==
    /\ ~InHandler /\ pc = "im_check"
    /\ pc' = IF connected /\ running THEN "im_input" ELSE "d_check"
    /\ UNCHANGED <<envVars, hpc, lastOp, sigints>>
    /\ UNCHANGED sessionVars /\ UNCHANGED fgVars /\ UNCHANGED rxVars

\* Lines a user types: every token of the mapping, blank lines, a padded
\* token, unknown words, and the words the loop handles itself
Inputs ==
    {<<c>> : c \in Commands}
      \cup {<<>>, <<32>>, <<32, 116, 32>>, <<122>>, <<116, 116>>, <<233>>,
            StrQuit, StrExit, StrHelp, StrClear, StrLs, StrCommands}

\* the lines typed in the whole-session specification
SessionInputs == {<<116>>, <<32, 97>>, <<104>>, <<113>>, <<122>>, <<>>}

LocalWords == {<<104>>, StrHelp, StrClear, StrLs, StrCommands}
QuitWords == {<<113>>, StrQuit, StrExit}

\* Mutant of Classify: the membership test on the token is missing
ClassifyUnvalidated(c) ==
    IF c = <<>> THEN "empty"
    ELSE IF c \in QuitWords THEN "quit"
    ELSE IF c \in LocalWords THEN "local"
    ELSE "send"

\* what the loop body does with a line: "empty" | "quit" | "local" | "send" | "invalid"
Classify(c) ==
    IF c = <<>> THEN "empty"
    ELSE IF c \in QuitWords THEN "quit"
    ELSE IF c \in LocalWords THEN "local"
    ELSE IF Len(c) = 1 /\ c[1] \in Commands THEN "send"
    ELSE "invalid"

\* command = input(prompt).strip() and the dispatch on it
InteractiveInput ==
    /\ ~InHandler /\ pc = "im_input"
    /\ \E line \in userLines :
         LET kind == Classify(Strip(line))
         IN  /\ command' = Strip(line)
             /\ kind = "send" => calls < sendBudget
             /\ pc' = CASE kind = "quit" -> "d_check"
                        [] kind = "send" -> "sc_check"
                        [] OTHER -> "im_check"
             /\ cmd' = IF kind = "send" THEN Strip(line) ELSE cmd
             /\ calls' = IF kind = "send" THEN calls + 1 ELSE calls
             /\ lastOp' = IF kind = "send" THEN "send" ELSE lastOp
    /\ UNCHANGED <<envVars, hpc, scResult, sigints>>
    /\ UNCHANGED sessionVars /\ UNCHANGED rxVars

\* input() raises EOFError: break
InteractiveEOF ==
    /\ ~InHandler /\ pc = "im_input"
    /\ pc' = "d_check"
    /\ UNCHANGED <<envVars, hpc, lastOp, sigints>>
    /\ UNCHANGED sessionVars /\ UNCHANGED fgVars /\ UNCHANGED rxVars

(***************************************************************************)
(* A caller driving the session's methods directly                         *)
(***************************************************************************)
ApiCommands == {<<116>>, <<122>>, <<233>>}

ApiConnect ==
    /\ ~InHandler /\ mode = "api" /\ pc = "idle"
    /\ ~connected /\ rxpc = "none"
    /\ pc' = "c_open"
    /\ lastOp' = "connect"
    /\ UNCHANGED <<envVars, hpc, sigints>>
    /\ UNCHANGED sessionVars /\ UNCHANGED fgVars /\ UNCHANGED rxVars

ApiSendCommand ==
    /\ ~InHandler /\ mode = "api" /\ pc = "idle"
    /\ calls < sendBudget
    /\ \E c \in ApiCommands : cmd' = c
    /\ calls' = calls + 1
    /\ pc' = "sc_check"
    /\ lastOp' = "send"
    /\ UNCHANGED <<envVars, hpc, scResult, command, sigints>>
    /\ UNCHANGED sessionVars /\ UNCHANGED rxVars

ApiDisconnect ==
    /\ ~InHandler /\ mode = "api" /\ pc = "idle"
    /\ pc' = "d_check"
    /\ UNCHANGED <<envVars, hpc, lastOp, sigints>>
    /\ UNCHANGED sessionVars /\ UNCHANGED fgVars /\ UNCHANGED rxVars

(***************************************************************************)
(* signal_handler: print, self.disconnect(), sys.exit(0)                   *)
(***************************************************************************)
\* SIGINT is delivered: the main thread enters the handler between two
\* bytecodes of whatever it was running
SignalHandler ==
    /\ Alive /\ ~InHandler
    /\ sigints < MaxSigint
    /\ sigints' = sigints + 1
    /\ hpc' = "d_check"
    /\ UNCHANGED <<envVars, pc, lastOp>>
    /\ UNCHANGED sessionVars /\ UNCHANGED fgVars /\ UNCHANGED rxVars

\* sys.exit(0): SystemExit unwinds the interrupted frame.  The bare except of
\* disconnect() swallows it when the interrupt came inside its try block;
\* inside run()'s try it runs the finally clause; otherwise the process ends.
SignalExit ==
    /\ hpc = "h_exit"
    /\ hpc' = "none"
    /\ pc' = IF pc \in {"d_send", "d_close"} THEN "d_flag"
             ELSE IF mode = "run" /\ pc \in {"im_check", "im_input", "sc_check", "sc_send"}
               THEN "d_check"
             ELSE "exited"
    /\ UNCHANGED <<envVars, lastOp, sigints>>
    /\ UNCHANGED sessionVars /\ UNCHANGED fgVars /\ UNCHANGED rxVars

(***************************************************************************)
(* receive_messages(), the daemon thread                                   *)
(***************************************************************************)
\* Mutant of ReceiveCheck: the loop test does not look at self.connected
ReceiveCheckRunningOnly ==
    /\ Alive /\ rxpc = "check"
    /\ rxpc' = IF running THEN "recv" ELSE "stopped"
    /\ UNCHANGED <<envVars, pc, hpc, lastOp, sigints, inbound, rxBytes, received,
                   buffer, dispatched, lastRead, lastData, errReports>>
    /\ UNCHANGED sessionVars /\ UNCHANGED fgVars

\* while self.connected and self.running:
ReceiveCheck ==
    /\ Alive /\ rxpc = "check"
    /\ rxpc' = IF connected /\ running THEN "recv" ELSE "stopped"
    /\ UNCHANGED <<envVars, pc, hpc, lastOp, sigints, inbound, rxBytes, received,
                   buffer, dispatched, lastRead, lastData, errReports>>
    /\ UNCHANGED sessionVars /\ UNCHANGED fgVars

\* data = self.socket.recv(1024).decode('utf-8'); buffer += data; the split loop
ReceiveData ==
    /\ Alive /\ rxpc = "recv" /\ socket = "open"
    /\ \E n \in 1 .. Min(RecvSize, Len(inbound)) :
         LET chunk == SubSeq(inbound, 1, n)
             data == Decode(chunk)
             split == SplitLines(buffer \o data.s, dispatched)
         IN  /\ inbound' = SubSeq(inbound, n + 1, Len(inbound))
             /\ rxBytes' = rxBytes \o chunk
             /\ IF data.ok
                  THEN /\ received' = received \o data.s
                       /\ buffer' = split.buffer
                       /\ dispatched' = split.out
                       /\ lastRead' = "data"
                       /\ lastData' = data.s
                       /\ rxpc' = IF split.raised THEN "except" ELSE "check"
                  ELSE /\ lastRead' = "undecodable"
                       /\ rxpc' = "except"
                       /\ UNCHANGED <<received, buffer, dispatched, lastData>>
    /\ UNCHANGED <<envVars, pc, hpc, lastOp, sigints, errReports>>
    /\ UNCHANGED sessionVars /\ UNCHANGED fgVars

\* Mutant of ReceiveEOF: what is left in the buffer is handed over at end-of-stream
ReceiveEOFFlush ==
    /\ Alive /\ rxpc = "recv" /\ socket = "open"
    /\ inbound = <<>>
    /\ lastRead' = "eof"
    /\ rxpc' = "stopped"
    /\ dispatched' = IF Strip(buffer) # <<>> THEN Append(dispatched, Strip(buffer))
                     ELSE dispatched
    /\ buffer' = <<>>
    /\ UNCHANGED <<envVars, pc, hpc, lastOp, sigints, inbound, rxBytes, received,
                   lastData, errReports>>
    /\ UNCHANGED sessionVars /\ UNCHANGED fgVars

\* if not data: break      (the server closed the stream)
ReceiveEOF ==
    /\ Alive /\ rxpc = "recv" /\ socket = "open"
    /\ inbound = <<>>
    /\ lastRead' = "eof"
    /\ rxpc' = "stopped"
    /\ UNCHANGED <<envVars, pc, hpc, lastOp, sigints, inbound, rxBytes, received,
                   buffer, dispatched, lastData, errReports>>
    /\ UNCHANGED sessionVars /\ UNCHANGED fgVars

\* Mutant of ReceiveTimeout: the timeout is handled like any other exception
ReceiveTimeoutFatal ==
    /\ Alive /\ rxpc = "recv" /\ socket \in {"open", "closed"}
    /\ lastRead' = "timeout"
    /\ rxpc' = "except"
    /\ UNCHANGED <<envVars, pc, hpc, lastOp, sigints, inbound, rxBytes, received,
                   buffer, dispatched, lastData, errReports>>
    /\ UNCHANGED sessionVars /\ UNCHANGED fgVars

\* except socket.timeout: continue      (a recv that was already waiting when
\* disconnect() closed the socket can still run into its timeout)
ReceiveTimeout ==
    /\ Alive /\ rxpc = "recv" /\ socket \in {"open", "closed"}
    /\ lastRead' = "timeout"
    /\ rxpc' = "check"
    /\ UNCHANGED <<envVars, pc, hpc, lastOp, sigints, inbound, rxBytes, received,
                   buffer, dispatched, lastData, errReports>>
    /\ UNCHANGED sessionVars /\ UNCHANGED fgVars

\* recv raises another exception: the connection was reset ("error"), or the
\* socket was closed by disconnect() before the call ("badfd")
ReceiveError ==
    /\ Alive /\ rxpc = "recv" /\ socket \in {"open", "closed"}
    /\ lastRead' = IF socket = "closed" THEN "badfd" ELSE "error"
    /\ rxpc' = "except"
    /\ UNCHANGED <<envVars, pc, hpc, lastOp, sigints, inbound, rxBytes, received,
                   buffer, dispatched, lastData, errReports>>
    /\ UNCHANGED sessionVars /\ UNCHANGED fgVars

\* except Exception as e: if self.connected: print("Receive error"); break
ReceiveExcept ==
    /\ Alive /\ rxpc = "except"
    /\ errReports' = IF connected THEN errReports + 1 ELSE errReports
    /\ rxpc' = "stopped"
    /\ UNCHANGED <<envVars, pc, hpc, lastOp, sigints, inbound, rxBytes, received,
                   buffer, dispatched, lastRead, lastData>>
    /\ UNCHANGED sessionVars /\ UNCHANGED fgVars

(***************************************************************************)
(* Specifications                                                          *)
(***************************************************************************)
\* Bytes a server sends in the model: a b ' ' '\n' and the two bytes of U+00E9
StreamBytes == {97, 98, 32, NL, 195, 169}

RECURSIVE SeqsUpTo(_, _)
SeqsUpTo(S, n) ==
    IF n = 0 THEN {<<>>}
    ELSE LET shorter == SeqsUpTo(S, n - 1)
         IN  shorter \cup {Append(s, x) : s \in shorter, x \in S}

\* inbound streams of the whole-session specification
SessionStreams == {<<>>, <<97, NL, 98>>}

\* __init__: self.socket = None, self.connected = False, self.running = True
InitSession ==
    /\ socket = "none" /\ connected = FALSE /\ running = TRUE
    /\ wire = <<>> /\ attempts = 0 /\ closes = 0
    /\ cmd = <<>> /\ scResult = "none" /\ calls = 0 /\ command = <<>>
    /\ lastOp = "none"
    /\ hpc = "none" /\ sigints = 0
    /\ rxpc = "none" /\ rxBytes = <<>> /\ received = <<>> /\ buffer = <<>>
    /\ dispatched = <<>> /\ lastRead = "none" /\ lastData = <<>> /\ errReports = 0

Init ==
    /\ mode \in {"run", "api"}
    /\ pc = IF mode = "run" THEN "start" ELSE "idle"
    /\ userLines = SessionInputs /\ sendBudget = MaxSessionSends
    /\ inbound \in SessionStreams
    /\ InitSession

Next ==
    \/ RunConnect \/ ConnectOpen \/ ConnectStartThread
    \/ InteractiveCheck \/ InteractiveInput \/ InteractiveEOF
    \/ SendCommandCheck \/ SendCommandWrite
    \/ DisconnectCheck \/ DisconnectSendQuit \/ DisconnectClose \/ DisconnectFlag
    \/ ApiConnect \/ ApiSendCommand \/ ApiDisconnect
    \/ SignalHandler \/ SignalExit
    \/ ReceiveCheck \/ ReceiveData \/ ReceiveEOF \/ ReceiveTimeout
    \/ ReceiveError \/ ReceiveExcept

Spec == Init /\ [][Next]_vars

\* The receive thread alone, on an established connection whose foreground
\* waits in input(): every stream of at most MaxStream bytes, every chunking
InitRecv ==
    /\ mode = "run" /\ pc = "im_input" /\ hpc = "none" /\ sigints = 0
    /\ userLines = SessionInputs /\ sendBudget = MaxSessionSends
    /\ socket = "open" /\ connected = TRUE /\ running = TRUE
    /\ wire = <<>> /\ attempts = 0 /\ closes = 0
    /\ cmd = <<>> /\ scResult = "none" /\ calls = 0 /\ command = <<>>
    /\ lastOp = "connect"
    /\ rxpc = "check" /\ inbound \in SeqsUpTo(StreamBytes, MaxStream)
    /\ rxBytes = <<>> /\ received = <<>> /\ buffer = <<>>
    /\ dispatched = <<>> /\ lastRead = "none" /\ lastData = <<>> /\ errReports = 0

NextRecv ==
    \/ ReceiveCheck \/ ReceiveData \/ ReceiveEOF \/ ReceiveTimeout
    \/ ReceiveError \/ ReceiveExcept

SpecRecv == InitRecv /\ [][NextRecv]_vars

\* Lines a server sends in the message specification: text that is not JSON,
\* JSON that is not an object, and objects of every type with fields present,
\* missing and of unexpected shape
Messages == {
    \* OK
    <<79, 75>>,
    \* {"type":"status"
    <<123, 34, 116, 121, 112, 101, 34, 58, 34, 115, 116, 97, 116, 117, 115, 34>>,
    \* {'type':1}
    <<123, 39, 116, 121, 112, 101, 39, 58, 49, 125>>,
    \* {} x
    <<123, 125, 32, 120>>,
    \* [1,]
    <<91, 49, 44, 93>>,
    \* 5
    <<53>>,
    \* "x"
    <<34, 120, 34>>,
    \* [1]
    <<91, 49, 93>>,
    \* null
    <<110, 117, 108, 108>>,
    \* NaN
    <<78, 97, 78>>,
    \* {"message":"m"}
    <<123, 34, 109, 101, 115, 115, 97, 103, 101, 34, 58, 34, 109, 34, 125>>,
    \* {"type":"welcome"}
    <<123, 34, 116, 121, 112, 101, 34, 58, 34, 119, 101, 108, 99, 111, 109, 101, 34, 125>>,
    \* {"type":"welcome","data":5}
    <<123, 34, 116, 121, 112, 101, 34, 58, 34, 119, 101, 108, 99, 111, 109, 101, 34,
      44, 34, 100, 97, 116, 97, 34, 58, 53, 125>>,
    \* {"type":"command","data":{"command_id":3}}
    <<123, 34, 116, 121, 112, 101, 34, 58, 34, 99, 111, 109, 109, 97, 110, 100, 34, 44,
      34, 100, 97, 116, 97, 34, 58, 123, 34, 99, 111, 109, 109, 97, 110, 100, 95, 105,
      100, 34, 58, 51, 125, 125>>,
    \* {"type":"command","data":"command_id"}
    <<123, 34, 116, 121, 112, 101, 34, 58, 34, 99, 111, 109, 109, 97, 110, 100, 34, 44,
      34, 100, 97, 116, 97, 34, 58, 34, 99, 111, 109, 109, 97, 110, 100, 95, 105, 100,
      34, 125>>,
    \* {"type":"status","message":"ok"}
    <<123, 34, 116, 121, 112, 101, 34, 58, 34, 115, 116, 97, 116, 117, 115, 34, 44, 34,
      109, 101, 115, 115, 97, 103, 101, 34, 58, 34, 111, 107, 34, 125>>,
    \* {"type":"debug"}
    <<123, 34, 116, 121, 112, 101, 34, 58, 34, 100, 101, 98, 117, 103, 34, 125>>,
    \* {"type":"debug","data":{"gnss":{}}}
    <<123, 34, 116, 121, 112, 101, 34, 58, 34, 100, 101, 98, 117, 103, 34, 44, 34, 100,
      97, 116, 97, 34, 58, 123, 34, 103, 110, 115, 115, 34, 58, 123, 125, 125, 125>>,
    \* {"type":"debug","data":{"topics":[1]}}
    <<123, 34, 116, 121, 112, 101, 34, 58, 34, 100, 101, 98, 117, 103, 34, 44, 34, 100,
      97, 116, 97, 34, 58, 123, 34, 116, 111, 112, 105, 99, 115, 34, 58, 91, 49, 93,
      125, 125>>,
    \* {"type":"debug","data":{"world_position":{"x":1,"y":2,"z":3}}}
    <<123, 34, 116, 121, 112, 101, 34, 58, 34, 100, 101, 98, 117, 103, 34, 44, 34, 100,
      97, 116, 97, 34, 58, 123, 34, 119, 111, 114, 108, 100, 95, 112, 111, 115, 105,
      116, 105, 111, 110, 34, 58, 123, 34, 120, 34, 58, 49, 44, 34, 121, 34, 58, 50,
      44, 34, 122, 34, 58, 51, 125, 125, 125>>,
    \* {"type":"help","data":{"commands":{}}}
    <<123, 34, 116, 121, 112, 101, 34, 58, 34, 104, 101, 108, 112, 34, 44, 34, 100, 97,
      116, 97, 34, 58, 123, 34, 99, 111, 109, 109, 97, 110, 100, 115, 34, 58, 123, 125,
      125, 125>>,
    \* {"type":"help","data":{"commands":1}}
    <<123, 34, 116, 121, 112, 101, 34, 58, 34, 104, 101, 108, 112, 34, 44, 34, 100, 97,
      116, 97, 34, 58, 123, 34, 99, 111, 109, 109, 97, 110, 100, 115, 34, 58, 49, 125,
      125>>,
    \* {"type":"error"}
    <<123, 34, 116, 121, 112, 101, 34, 58, 34, 101, 114, 114, 111, 114, 34, 125>>,
    \* {"type":"goodbye"}
    <<123, 34, 116, 121, 112, 101, 34, 58, 34, 103, 111, 111, 100, 98, 121, 101, 34, 125>>,
    \* {"type":"other"}
    <<123, 34, 116, 121, 112, 101, 34, 58, 34, 111, 116, 104, 101, 114, 34, 125>>,
    \* {"type":5}
    <<123, 34, 116, 121, 112, 101, 34, 58, 53, 125>>,
    \* {"type":null,"message":null}
    <<123, 34, 116, 121, 112, 101, 34, 58, 110, 117, 108, 108, 44, 34, 109, 101, 115,
      115, 97, 103, 101, 34, 58, 110, 117, 108, 108, 125>>,
    \* {"type":"status","type":"error"}
    <<123, 34, 116, 121, 112, 101, 34, 58, 34, 115, 116, 97, 116, 117, 115, 34, 44, 34,
      116, 121, 112, 101, 34, 58, 34, 101, 114, 114, 111, 114, 34, 125>>,
    \* { "type" : "help" }
    <<123, 32, 34, 116, 121, 112, 101, 34, 32, 58, 32, 34, 104, 101, 108, 112, 34, 32,
      125>>,
    \* {"type":"Status"}
    <<123, 34, 116, 121, 112, 101, 34, 58, 34, 83, 116, 97, 116, 117, 115, 34, 125>>,
    \* {"message":"é"}
    <<123, 34, 109, 101, 115, 115, 97, 103, 101, 34, 58, 34, 233, 34, 125>>
}

\* each line is followed on the stream by the line {}
MessageStreams == {Encode(m \o <<NL, 123, 125, NL>>) : m \in Messages}

\* The receive thread on an established connection whose server sends a line
\* of Messages and then {}: every chunking of the stream
InitMsg ==
    /\ mode = "run" /\ pc = "im_input" /\ hpc = "none" /\ sigints = 0
    /\ userLines = SessionInputs /\ sendBudget = MaxSessionSends
    /\ socket = "open" /\ connected = TRUE /\ running = TRUE
    /\ wire = <<>> /\ attempts = 0 /\ closes = 0
    /\ cmd = <<>> /\ scResult = "none" /\ calls = 0 /\ command = <<>>
    /\ lastOp = "connect"
    /\ rxpc = "check" /\ inbound \in MessageStreams
    /\ rxBytes = <<>> /\ received = <<>> /\ buffer = <<>>
    /\ dispatched = <<>> /\ lastRead = "none" /\ lastData = <<>> /\ errReports = 0

SpecMsg == InitMsg /\ [][NextRecv]_vars

\* run() with a user who may type any line of Inputs, and no SIGINT
InitCmd ==
    /\ mode = "run" /\ pc = "start"
    /\ userLines = Inputs /\ sendBudget = MaxSends
    /\ inbound = <<97, NL>>
    /\ InitSession

NextCmd ==
    \/ RunConnect \/ ConnectOpen \/ ConnectStartThread
    \/ InteractiveCheck \/ InteractiveInput \/ InteractiveEOF
    \/ SendCommandCheck \/ SendCommandWrite
    \/ DisconnectCheck \/ DisconnectSendQuit \/ DisconnectClose \/ DisconnectFlag
    \/ ReceiveCheck \/ ReceiveData \/ ReceiveEOF \/ ReceiveTimeout
    \/ ReceiveError \/ ReceiveExcept

SpecCmd == InitCmd /\ [][NextCmd]_vars

\* Connect and disconnect only, by run() or by a caller, with a receive
\* thread that is scheduled and whose reads return: socket.settimeout(10.0)
\* bounds every recv, and the main thread carries on through disconnect()
InitStop ==
    /\ mode \in {"run", "api"}
    /\ pc = IF mode = "run" THEN "start" ELSE "idle"
    /\ userLines = {<<113>>, <<>>, <<122>>} /\ sendBudget = 0
    /\ inbound \in SeqsUpTo({97, NL}, 2)
    /\ InitSession

NextStop ==
    \/ RunConnect \/ ApiConnect \/ ConnectOpen \/ ConnectStartThread
    \/ InteractiveCheck \/ InteractiveInput \/ InteractiveEOF
    \/ ApiDisconnect
    \/ DisconnectCheck \/ DisconnectSendQuit \/ DisconnectClose \/ DisconnectFlag
    \/ ReceiveCheck \/ ReceiveData \/ ReceiveEOF \/ ReceiveTimeout
    \/ ReceiveError \/ ReceiveExcept

ReadReturns == ReceiveTimeout \/ ReceiveError \/ ReceiveEOF \/ ReceiveData

SpecStop ==
    /\ InitStop /\ [][NextStop]_vars
    /\ WF_vars(ReceiveCheck) /\ WF_vars(ReadReturns) /\ WF_vars(ReceiveExcept)
    /\ WF_vars(DisconnectSendQuit) /\ WF_vars(DisconnectClose) /\ WF_vars(DisconnectFlag)

(***************************************************************************)
(* Properties                                                              *)
(***************************************************************************)

\* C1: a send_command call made while the session is not connected (never
\* connected, connect failed, or after disconnect) returns failure
\* (NotConnected), goes nowhere near the socket write and leaves the wire and
\* the count of socket.send calls unchanged.
C1_NotConnectedSendFails ==
    [][(~InHandler /\ pc = "sc_check" /\ pc' # "sc_check" /\ ~connected)
         => /\ scResult' = "NotConnected"
            /\ pc' # "sc_send"
            /\ wire' = wire /\ attempts' = attempts /\ socket' = socket]_vars

\* a send_command that was refused after a disconnect that closed the socket
C1_Witness ==
    /\ scResult = "NotConnected" /\ lastOp = "send" /\ pc = "idle"
    /\ socket = "closed" /\ wire = <<Encode(StrQuit \o <<NL>>)>> /\ attempts = 1

\* C2: a disconnect() that directly follows a completed disconnect() is a
\* no-op: it does not reach the quit write, writes nothing, closes nothing and
\* changes no session state, from every state (never connected, connect
\* failed, disconnected), whoever calls it (foreground or signal handler).
C2_SecondDisconnectNoOp ==
    [][(lastOp \in {"disconnect", "disconnect-noop"} /\ Cur = "d_check"
          /\ Cur' # "d_check")
         => /\ Cur' \notin {"d_send", "d_close", "d_flag"}
            /\ lastOp' = "disconnect-noop"
            /\ UNCHANGED <<socket, connected, running, wire, attempts, closes>>]_vars

\* a second disconnect() has returned after a first one that closed the socket
C2_Witness ==
    /\ lastOp = "disconnect-noop" /\ pc = "idle" /\ hpc = "none"
    /\ closes = 1 /\ socket = "closed" /\ ~connected
    /\ wire = <<Encode(StrQuit \o <<NL>>)>>

\* C3: once the receive loop has stopped on end-of-stream or on a read error,
\* the session is no longer Connected.
C3_DropLeavesConnected ==
    (rxpc = "stopped" /\ lastRead \in {"eof", "error"}) => ~connected

\* C4: a read that times out leaves the loop running at its loop test with
\* the connected flag, the socket, the buffer and the dispatched lines
\* unchanged, and the loop test of a connected session issues the next read.
C4_TimeoutNotFatal ==
    [][/\ (rxpc = "recv" /\ rxpc' # "recv" /\ lastRead' = "timeout")
            => /\ rxpc' = "check"
               /\ UNCHANGED <<connected, running, socket, buffer, dispatched,
                              errReports>>
       /\ (rxpc = "check" /\ rxpc' # "check" /\ connected /\ running)
            => rxpc' = "recv"]_vars

\* the loop is in its next read after a read that timed out
C4_Witness ==
    /\ lastRead = "timeout" /\ rxpc = "recv" /\ connected /\ socket = "open"
    /\ errReports = 0

\* C8: a disconnect() that ran from the Connected state ends with the socket
\* closed and the session disconnected, whether or not the quit write worked.
C8_DisconnectAlwaysCloses ==
    lastOp = "disconnect" => (socket = "closed" /\ ~connected)

\* Reference framing, computed on the whole text at once: the positions of the
\* newlines, the complete lines between them, and what a handler should see
NLPos(s) == {i \in 1 .. Len(s) : s[i] = NL}

CompleteLines(s) ==
    LET P == NLPos(s)
        nth(j) == CHOOSE i \in P : Cardinality({q \in P : q < i}) = j - 1
        start(j) == IF j = 1 THEN 1 ELSE nth(j - 1) + 1
    IN  [j \in 1 .. Cardinality(P) |-> SubSeq(s, start(j), nth(j) - 1)]

NonBlank(l) == \E i \in 1 .. Len(l) : l[i] \notin Whitespace

ExpectedDispatch(s) ==
    LET ls == SelectSeq(CompleteLines(s), NonBlank)
    IN  [j \in 1 .. Len(ls) |-> Strip(ls[j])]

RECURSIVE JoinLines(_)
JoinLines(ls) ==
    IF ls = <<>> THEN <<>> ELSE Head(ls) \o <<NL>> \o JoinLines(Tail(ls))

\* C5: whatever the stream and its split into reads, the lines handed to the
\* handler are the complete lines received so far, in arrival order, each one
\* once (blank lines left out, each line stripped); and the text received is
\* the decoding of the bytes read as long as every read decoded.
C5_FifoDispatch ==
    /\ dispatched = ExpectedDispatch(received)
    /\ lastRead # "undecodable" => Decode(rxBytes) = [ok |-> TRUE, s |-> received]

\* two different lines, arrived in more than one read, dispatched in arrival order
C5_Witness ==
    /\ dispatched = << <<97>>, <<98>> >>
    /\ received = <<97, NL, 98, NL>> /\ lastData # received

\* C6: the dispatched lines, a newline after each, followed by the retained
\* buffer are the bytes read so far, whatever the chunk boundaries.
C6_ChunkingInvariance ==
    Encode(JoinLines(dispatched) \o buffer) = rxBytes

AllowedLines == {<<t, NL>> : t \in Commands} \cup {<<113, 117, 105, 116, NL>>}

\* C9: every line written to the socket is one token of the mapping or
\* "quit"; an input line that is not one token of the mapping does not reach
\* send_command and causes no socket write.
C9_OnlyTokensOrQuit ==
    /\ [](\A i \in 1 .. Len(wire) : wire[i] \in AllowedLines)
    /\ [][(pc = "im_input" /\ pc' # "im_input"
             /\ ~(Len(command') = 1 /\ command'[1] \in Commands))
            => (pc' # "sc_check" /\ wire' = wire /\ attempts' = attempts)]_vars

\* after "t" was sent, "z" was typed and refused without a write
C9_Witness ==
    /\ command = <<122>> /\ pc = "im_check" /\ calls = 1
    /\ wire = << <<116, NL>> >> /\ attempts = 1

\* C10 as stated: send_command(t), t a token of the mapping, on a connected
\* session succeeds and writes exactly t and a newline.
C10_SendAlwaysSucceeds ==
    [][(~InHandler /\ pc = "sc_send" /\ pc' # "sc_send" /\ connected
          /\ Len(cmd) = 1 /\ cmd[1] \in Commands)
         => /\ scResult' = "ok"
            /\ wire' = Append(wire, <<cmd[1], NL>>)
            /\ attempts' = attempts + 1]_vars

\* C10 amended: send_command(t) on a connected session makes exactly one
\* socket write; it either succeeds and puts exactly t and a newline on the
\* wire, or the write raises and it returns failure with nothing written.
C10_SendWritesTokenLine ==
    [][(~InHandler /\ pc = "sc_send" /\ pc' # "sc_send" /\ connected
          /\ Len(cmd) = 1 /\ cmd[1] \in Commands)
         => /\ attempts' = attempts + 1
            /\ \/ scResult' = "ok" /\ wire' = Append(wire, <<cmd[1], NL>>)
               \/ scResult' = "SendError" /\ wire' = wire]_vars

\* send_command("t") has returned success with t and a newline on the wire
C10_Witness ==
    /\ scResult = "ok" /\ cmd = <<116>> /\ pc = "im_check" /\ connected
    /\ wire = << <<116, NL>> >> /\ attempts = 1 /\ calls = 1

\* C12: when the process of run() has ended after a successful connect (one
\* that started the receive thread), the session is not connected and
\* socket.close() has been called.
C12_ExitAfterDisconnect ==
    (mode = "run" /\ pc = "exited" /\ rxpc # "none") => (~connected /\ closes >= 1)

\* C13: whenever a disconnect() that ran from the Connected state has
\* completed and the session is disconnected, the receive thread is not
\* running any more (it has ended, or was never started).
C13_DisconnectedAfterThreadExit ==
    (lastOp = "disconnect" /\ ~connected) => rxpc \in {"stopped", "none"}

\* C14: once disconnect() has been called on a connected session, the
\* receive thread eventually ends (or the process does, taking the daemon
\* thread with it); and once the flag is cleared the thread issues no read
\* after the one it may be in: a read outcome leads to the loop test or out of
\* the loop, and the loop test ends the loop.
C14_StopIsLive ==
    /\ (Cur = "d_send") ~> (rxpc = "stopped" \/ ~Alive)
    /\ [][/\ (~connected /\ rxpc = "check" /\ rxpc' # "check") => rxpc' = "stopped"
          /\ (~connected /\ rxpc = "recv" /\ rxpc' # "recv")
               => rxpc' \in {"check", "except", "stopped"}
          /\ (~connected /\ rxpc = "except" /\ rxpc' # "except")
               => rxpc' = "stopped"]_vars

\* the thread ended after a read that timed out once disconnect() had returned
\* to its caller without having been able to close the socket
C14_Witness ==
    /\ mode = "api" /\ lastOp = "disconnect" /\ pc = "idle" /\ socket = "open"
    /\ rxpc = "stopped" /\ lastRead = "timeout" /\ errReports = 0

\* C15: the receive loop leaves its loop only on end-of-stream, on a read
\* error of the connection or on a stop (the connected flag cleared); no
\* content of the stream ends it.  Stated for streams that are well-formed
\* UTF-8 as a whole, so that only the read boundaries vary.
C15_ContentNeverStopsLoop ==
    (rxpc \in {"except", "stopped"} /\ Decode(rxBytes \o inbound).ok)
        => (lastRead \in {"eof", "error", "badfd"} \/ ~connected)

\* C16: a send_command whose socket write raises returns failure and leaves
\* the session as it was: still connected, the socket not closed, the receive
\* thread where it was; and the next send_command on the still connected
\* session goes to the socket write again instead of being refused.
C16_SendFailureNotFatal ==
    [][/\ (~InHandler /\ pc = "sc_send" /\ pc' # "sc_send" /\ scResult' = "SendError")
            => /\ connected' /\ socket' = "open"
               /\ UNCHANGED <<connected, socket, closes, running, rxpc>>
       /\ (~InHandler /\ pc = "sc_check" /\ pc' # "sc_check"
             /\ scResult = "SendError" /\ connected)
            => (pc' = "sc_send" /\ scResult' # "NotConnected")]_vars

\* a second send_command reached the socket write, and failed too, after a
\* first one had failed; the session is still connected and still receiving
C16_Witness ==
    /\ scResult = "SendError" /\ calls = 2 /\ attempts = 2 /\ wire = <<>>
    /\ connected /\ socket = "open" /\ closes = 0 /\ rxpc = "recv"
    /\ pc = "im_check"

\* C17 as stated, last part: the loop started by connect() always enters its
\* running state, i.e. its first loop test always leads to a read.
C17_LoopAlwaysStarts ==
    [][(rxpc = "check" /\ lastRead = "none" /\ rxpc' # "check") => rxpc' = "recv"]_vars

\* C17 amended: a receive thread exists only after socket.connect succeeded,
\* and it is started with the connected flag already set; a connect() that
\* fails returns failure with the session still disconnected, no thread and
\* no retry, and run() then ends without entering the command loop; the
\* thread's first loop test leads to a read unless a disconnect() has
\* cleared the flag before it.
C17_ThreadOnlyWhenConnected ==
    /\ [](rxpc # "none" => socket \in {"open", "closed"})
    /\ [][/\ (rxpc = "none" /\ rxpc' # "none")
               => (pc = "c_thread" /\ connected /\ socket = "open" /\ rxpc' = "check")
          /\ (hpc = "none" /\ hpc' = "none" /\ pc = "c_open" /\ pc' \notin {"c_open", "c_thread"})
               => /\ ~connected' /\ socket' \in {"none", "created"} /\ rxpc' = "none"
                  /\ pc' = (IF mode = "run" THEN "exited" ELSE "idle")
                  /\ calls' = calls /\ attempts' = attempts
          /\ (rxpc = "check" /\ lastRead = "none" /\ rxpc' # "check")
               => IF connected THEN rxpc' = "recv"
                  ELSE rxpc' = "stopped" /\ attempts >= 1]_vars

\* the thread started by a successful connect() is in its first read
C17_Witness ==
    /\ rxpc = "recv" /\ lastRead = "none" /\ connected /\ socket = "open"
    /\ mode = "run" /\ pc = "im_input" /\ lastOp = "connect"

\* position of the last newline of s, 0 when there is none
LastNL(s) == IF NLPos(s) = {} THEN 0 ELSE CHOOSE i \in NLPos(s) : \A j \in NLPos(s) : j <= i

\* C19: the characters received after the last newline stay in the buffer and
\* are never handed to the handler: the handler has been called once per
\* non-blank complete line and no more, and the step by which the loop ends
\* (end-of-stream, read error, stop) calls no handler and leaves the rest behind.
C19_PartialLineNotDispatched ==
    /\ [](/\ buffer = SubSeq(received, LastNL(received) + 1, Len(received))
          /\ Len(dispatched) = Len(SelectSeq(CompleteLines(received), NonBlank)))
    /\ [][(rxpc # rxpc' /\ rxpc' \in {"except", "stopped"})
            => (dispatched' = dispatched /\ buffer' = buffer)]_vars

\* the stream ended after "a\nb": a was dispatched, b was left in the buffer
C19_Witness ==
    /\ rxpc = "stopped" /\ lastRead = "eof" /\ inbound = <<>>
    /\ received = <<97, NL, 98>> /\ buffer = <<98>> /\ dispatched = << <<97>> >>

\* C20: a "Receive error" report is never the consequence of disconnect()
\* having closed the socket: no report is printed for a recv that failed
\* because the socket was already closed.
C20_NoReportOnDisconnect ==
    [][(rxpc = "except" /\ errReports' > errReports) => lastRead # "badfd"]_vars

\* C11: no call of the handler raises to the receive loop: a line that is
\* not JSON ends in the raw-response fallback, JSON that is not an object in
\* the failure fallback that prints the raw message, and an object whose
\* fields have unexpected shapes in that same fallback or at the end of the
\* try block; every non-blank complete line received is handed over, whatever
\* came before it, and after a read that decoded the loop is at its loop test.
C11_HandlerNeverRaises ==
    /\ [](/\ \A i \in 1 .. Len(dispatched) :
               /\ HandleServerMessage(dispatched[i]).path \in {"returned", "raw", "failed"}
               /\ ~Loads(dispatched[i]).ok
                    => HandleServerMessage(dispatched[i]).path = "raw"
               /\ (Loads(dispatched[i]).ok /\ Loads(dispatched[i]).v.kind # "object")
                    => HandleServerMessage(dispatched[i]).path = "failed"
          /\ Len(dispatched) = Len(SelectSeq(CompleteLines(received), NonBlank)))
    /\ [][(rxpc = "recv" /\ rxpc' # "recv" /\ lastRead' = "data") => rxpc' = "check"]_vars

\* the line [1] went through the failure fallback, the line {} after it was
\* handled, and the loop is in its next read
C11_Witness ==
    /\ dispatched = << <<91, 49, 93>>, <<123, 125>> >>
    /\ HandleServerMessage(dispatched[1]).path = "failed"
    /\ HandleServerMessage(dispatched[2]).path = "returned"
    /\ rxpc = "recv" /\ lastRead = "data" /\ errReports = 0

\* the branch the protocol assigns to each value of type
TypeBranch ==
    (StrWelcome :> "welcome") @@ (StrCommand :> "command") @@ (StrStatus :> "status")
      @@ (StrDebug :> "debug") @@ (StrHelp :> "help") @@ (StrError :> "error")
      @@ (StrGoodbye :> "goodbye")

\* the type of a decoded object, "unknown" when it has none
TypeOf(o) == IF StrType \in {o.keys[i] : i \in 1 .. Len(o.keys)}
               THEN Get(o, StrType, o) ELSE JString(StrUnknown)

ExpectedBranch(o) ==
    IF TypeOf(o).kind = "string" /\ TypeOf(o).s \in DOMAIN TypeBranch
      THEN TypeBranch[TypeOf(o).s] ELSE "generic"

\* C18: for every line handed to the handler that decodes to a JSON object,
\* the branch entered is the one of its type: each of the seven types its
\* own branch, a missing type and any other value of type the generic one;
\* and msg_text is the message member, or the empty string when it is missing.
C18_DispatchByType ==
    \A i \in 1 .. Len(dispatched) :
        (Loads(dispatched[i]).ok /\ Loads(dispatched[i]).v.kind = "object")
          => /\ HandleServerMessage(dispatched[i]).branch
                  = ExpectedBranch(Loads(dispatched[i]).v)
             /\ HandleServerMessage(dispatched[i]).text
                  = IF StrMessage \in {Loads(dispatched[i]).v.keys[k] :
                                         k \in 1 .. Len(Loads(dispatched[i]).v.keys)}
                      THEN Get(Loads(dispatched[i]).v, StrMessage, JString(<<>>))
                      ELSE JString(<<>>)

\* {"type":"goodbye"} was dispatched to the goodbye branch with an empty text
C18_Witness ==
    /\ Len(dispatched) >= 1
    /\ Loads(dispatched[1]).ok /\ Loads(dispatched[1]).v.kind = "object"
    /\ Loads(dispatched[1]).v.keys = <<StrType>>
    /\ Loads(dispatched[1]).v.vals = <<JString(StrGoodbye)>>
    /\ HandleServerMessage(dispatched[1]).branch = "goodbye"
    /\ HandleServerMessage(dispatched[1]).text = JString(<<>>)
    /\ HandleServerMessage(dispatched[1]).path = "returned"

\* the quit line of disconnect() as it appears on the wire
QuitLine == Encode(StrQuit \o <<NL>>)

\* number of quit lines written so far
QuitCount == Cardinality({i \in 1 .. Len(wire) : wire[i] = QuitLine})

\* C21: the command loop handles the tokens q and h itself and never passes
\* them to send_command or writes them to the socket; and when run() has
\* ended after the user typed a quit word, the connection carries exactly one
\* quit line, written last.  The quit line is a best-effort write, so the
\* second part is stated for sessions in which no socket write raised.
C21_QuitWrittenOnceLast ==
    /\ [][(~InHandler /\ pc = "im_input" /\ pc' # "im_input"
             /\ command' \in {<<113>>, <<104>>})
            => (pc' # "sc_check" /\ wire' = wire /\ attempts' = attempts
                 /\ calls' = calls)]_vars
    /\ []((mode = "run" /\ pc = "exited" /\ command \in QuitWords
             /\ attempts = Len(wire))
            => (QuitCount = 1 /\ wire[Len(wire)] = QuitLine))

\* C22: every socket.send call, by send_command or by disconnect(), on the
\* foreground or in the SIGINT handler, is made while the socket is open:
\* no write is attempted on a socket that socket.close() has already closed.
C22_NoWriteOnClosedSocket ==
    [][(attempts' > attempts) => (socket = "open" /\ closes = 0)]_vars

\* the part of C22 about send_command alone: its write is never attempted
\* on a closed socket, although the handler may run between its test and
\* its write
C22_SendCommandWritesOnOpenSocket ==
    [][(pc = "sc_send" /\ attempts' > attempts) => (socket = "open" /\ closes = 0)]_vars

====
